---- MODULE Spec2Model ----
(***************************************************************************)
(* Table reconstruction of the OCR hook (useOcrProcessing):                *)
(* transformOcrWordsToTable_BBox, the latest variant of the hook           *)
(* (src/unnamed/part_006, lines 698-924).                                  *)
(*                                                                         *)
(* Numbers.  Bounding boxes are integer pixel coordinates.  The code works *)
(* on IEEE doubles; every quantity it compares is modelled exactly:        *)
(*   - a vertical centre and a row's y are rationals [n, d] (n/d, d > 0),  *)
(*     compared by cross-multiplication;                                   *)
(*   - a width ratio a/b > 0.5 is 2a > b, a/b > 0.4 is 5a > 2b (b > 0);    *)
(*   - stdDev/avgGap < 0.7 is decided on the integers it is made of.       *)
(* Text.  A text is a sequence of one-character strings, so that           *)
(* toLowerCase, includes, trim and the joins are computed, not assumed.    *)
(***************************************************************************)
EXTENDS Integers, Sequences, FiniteSets, TLC

VARIABLES
    words,      \* the argument of transformOcrWordsToTable_BBox (a list)
    present,    \* FALSE when the argument is null/undefined
    result,     \* what the call produced
    pc,         \* "ready" before the call, "done" after it
    caller      \* the caller's array (the object passed as argument) as it is now

tableVars == <<words, present, result, pc, caller>>

-----------------------------------------------------------------------------
(* Program constants *)

rowTolerance == 30
gapThreshold == 20

\* headerTerms, as character sequences
headerTerms ==
    << <<"t","e","s","t","e","n">>,
       <<"r","e","s","u","l","t","a","t","e","n">>,
       <<"t","e","s","t">>,
       <<"r","e","s","u","l","t">>,
       <<"p","a","r","a","m","e","t","e","r">>,
       <<"w","a","a","r","d","e">>,
       <<"e","e","n","h","e","i","d">>,
       <<"e","e","n","h","e","d","e","n">>,
       <<"o","n","d","e","r","l">>,
       <<"b","o","v","e","n","l">> >>

\* the placeholder cell: the one character U+2014 (em dash), written "EMDASH" here
Dash == <<"EMDASH">>

-----------------------------------------------------------------------------
(* Text helpers: String.prototype.toLowerCase, includes, trim; Array join *)

LowerChar(c) ==
    CASE c = "A" -> "a"
      [] c = "B" -> "b"
      [] c = "C" -> "c"
      [] c = "D" -> "d"
      [] c = "E" -> "e"
      [] c = "F" -> "f"
      [] c = "G" -> "g"
      [] c = "H" -> "h"
      [] c = "I" -> "i"
      [] c = "J" -> "j"
      [] c = "K" -> "k"
      [] c = "L" -> "l"
      [] c = "M" -> "m"
      [] c = "N" -> "n"
      [] c = "O" -> "o"
      [] c = "P" -> "p"
      [] c = "Q" -> "q"
      [] c = "R" -> "r"
      [] c = "S" -> "s"
      [] c = "T" -> "t"
      [] c = "U" -> "u"
      [] c = "V" -> "v"
      [] c = "W" -> "w"
      [] c = "X" -> "x"
      [] c = "Y" -> "y"
      [] c = "Z" -> "z"
      [] OTHER -> c

toLowerCase(s) == [i \in 1..Len(s) |-> LowerChar(s[i])]

\* s.includes(t)
includes(s, t) ==
    \E k \in 0..(Len(s) - Len(t)) : SubSeq(s, k + 1, k + Len(t)) = t

RECURSIVE TrimLeft(_)
TrimLeft(s) == IF s # <<>> /\ Head(s) = " " THEN TrimLeft(Tail(s)) ELSE s

RECURSIVE TrimRight(_)
TrimRight(s) ==
    IF s # <<>> /\ s[Len(s)] = " " THEN TrimRight(SubSeq(s, 1, Len(s) - 1)) ELSE s

trim(s) == TrimRight(TrimLeft(s))

\* texts.join(' ')
RECURSIVE JoinSpace(_)
JoinSpace(ts) ==
    IF ts = <<>> THEN <<>>
    ELSE IF Len(ts) = 1 THEN ts[1]
    ELSE ts[1] \o <<" ">> \o JoinSpace(Tail(ts))

-----------------------------------------------------------------------------
(* Exact numbers *)

Rat(n, d) == [n |-> n, d |-> d]
RLess(a, b) == a.n * b.d < b.n * a.d
Abs(i) == IF i < 0 THEN -i ELSE i

\* const midY = (word.bbox.y0 + word.bbox.y1) / 2
midY(w) == Rat(w.bbox.y0 + w.bbox.y1, 2)

\* Math.abs(a - b) < t, t an integer
AbsDiffLess(a, b, t) == Abs(a.n * b.d - b.n * a.d) < t * a.d * b.d

RECURSIVE Gcd(_, _)
Gcd(a, b) == IF b = 0 THEN a ELSE Gcd(b, a % b)

\* one value, one representation: lowest terms
Norm(r) ==
    LET g == Gcd(Abs(r.n), r.d) IN Rat(r.n \div g, r.d \div g)

Min(a, b) == IF a < b THEN a ELSE b
Max(a, b) == IF a > b THEN a ELSE b

-----------------------------------------------------------------------------
(* Array.prototype.sort with a comparator ka - kb: a stable sort by key.   *)
(* keys[i] is the key of element i; the result lists the indices in their  *)
(* sorted order, equal keys in their original order.                       *)

InsertIdx(s, i, keys) ==
    LET p == Cardinality({q \in 1..Len(s) : ~RLess(keys[i], keys[s[q]])})
    IN  SubSeq(s, 1, p) \o <<i>> \o SubSeq(s, p + 1, Len(s))

RECURSIVE SortIdx(_, _)
SortIdx(keys, k) ==
    IF k = 0 THEN <<>> ELSE InsertIdx(SortIdx(keys, k - 1), k, keys)

StableSort(s, keys) ==
    LET idx == SortIdx(keys, Len(s)) IN [k \in 1..Len(s) |-> s[idx[k]]]

-----------------------------------------------------------------------------
(* transformOcrWordsToTable_BBox, step by step *)

\* faulty variant of sortedWordsOf: the words are clustered in their input order
sortedWordsOf_unsorted(ws) == ws

\* [...words].sort((a, b) => midYA - midYB)
sortedWordsOf(ws) == StableSort(ws, [i \in 1..Len(ws) |-> midY(ws[i])])

\* row.words.sort((a, b) => a.bbox.x0 - b.bbox.x0)
SortByX0(ws) == StableSort(ws, [i \in 1..Len(ws) |-> Rat(ws[i].bbox.x0, 1)])

\* minY, maxY, minX, maxX over all words (the list is not empty here)
RECURSIVE DocBounds(_)
DocBounds(ws) ==
    LET b == ws[1].bbox IN
    IF Len(ws) = 1
    THEN [minY |-> b.y0, maxY |-> b.y1, minX |-> b.x0, maxX |-> b.x1]
    ELSE LET r == DocBounds(Tail(ws)) IN
         [minY |-> Min(r.minY, b.y0), maxY |-> Max(r.maxY, b.y1),
          minX |-> Min(r.minX, b.x0), maxX |-> Max(r.maxX, b.x1)]

\* foundRow.y = (foundRow.y * foundRow.words.length + midY) / (foundRow.words.length + 1)
\* evaluated after the push, so len already counts the new word
rowYUpdate(y, len, m) ==
    Norm(Rat(y.n * len * m.d + m.n * y.d, y.d * m.d * (len + 1)))

\* faulty variant of findRow: the tolerance of the earlier variant, 10 pixels
findRow_tolerance10(rows, m) ==
    LET hit == {i \in 1..Len(rows) : AbsDiffLess(rows[i].y, m, 10)}
    IN  IF hit = {} THEN 0 ELSE CHOOSE i \in hit : \A j \in hit : i <= j

\* faulty variant of findRow: Math.abs(r.y - midY) <= rowTolerance
findRow_inclusive(rows, m) ==
    LET hit == {i \in 1..Len(rows) : AbsDiffLess(rows[i].y, m, rowTolerance)
                                      \/ Abs(rows[i].y.n * m.d - m.n * rows[i].y.d)
                                            = rowTolerance * rows[i].y.d * m.d}
    IN  IF hit = {} THEN 0 ELSE CHOOSE i \in hit : \A j \in hit : i <= j

\* rows.find(r => Math.abs(r.y - midY) < rowTolerance): index of the first such row, 0 if none
findRow(rows, m) ==
    LET hit == {i \in 1..Len(rows) : AbsDiffLess(rows[i].y, m, rowTolerance)}
    IN  IF hit = {} THEN 0 ELSE CHOOSE i \in hit : \A j \in hit : i <= j

\* faulty variant of groupWord: foundRow.words = [word] in place of the push
groupWord_replace(rows, word) ==
    LET m == Norm(midY(word))
        f == findRow(rows, m)
    IN  IF f # 0
        THEN [rows EXCEPT ![f] = [y |-> rowYUpdate(rows[f].y, 2, m), words |-> <<word>>]]
        ELSE Append(rows, [y |-> m, words |-> <<word>>])

\* the body of sortedWords.forEach(word => ...) that groups words into rows
groupWord(rows, word) ==
    LET m == Norm(midY(word))
        f == findRow(rows, m)
    IN  IF f # 0
        THEN LET pushed == Append(rows[f].words, word)
             IN  [rows EXCEPT ![f] = [y |-> rowYUpdate(rows[f].y, Len(pushed), m),
                                      words |-> pushed]]
        ELSE Append(rows, [y |-> m, words |-> <<word>>])

RECURSIVE groupRows(_, _)
groupRows(sorted, k) ==
    IF k = 0 THEN <<>> ELSE groupWord(groupRows(sorted, k - 1), sorted[k])

\* faulty variant of sortRows: rows.sort((a, b) => b.y - a.y)
sortRows_descending(rows) ==
    StableSort(rows, [i \in 1..Len(rows) |-> Rat(0 - rows[i].y.n, rows[i].y.d)])

\* rows.sort((a, b) => a.y - b.y)
sortRows(rows) == StableSort(rows, [i \in 1..Len(rows) |-> rows[i].y])

-----------------------------------------------------------------------------
(* Header detection *)

\* a / b > num / den on doubles, b any integer (x / 0 is +-Infinity or NaN)
RatioGreater(a, b, num, den) ==
    IF b > 0 THEN a * den > num * b
    ELSE IF b < 0 THEN a * den < num * b
    ELSE a > 0

\* faulty variant of rowTextOf: the text is not lower-cased
rowTextOf_caseSensitive(ws) == JoinSpace([i \in 1..Len(ws) |-> ws[i].text])

\* const rowText = row.words.map(w => w.text.toLowerCase()).join(' ')
rowTextOf(ws) == JoinSpace([i \in 1..Len(ws) |-> toLowerCase(ws[i].text)])

\* headerTerms.some(term => rowText.includes(term))
containsHeaderTerm(ws) ==
    \E t \in 1..Len(headerTerms) : includes(rowTextOf(ws), headerTerms[t])

\* faulty variant of isInTopThird: the threshold is minY + docHeight * 2 / 3
isInTopThird_twoThirds(y, doc) == 3 * y.n < (3 * doc.minY + 2 * (doc.maxY - doc.minY)) * y.d

\* const isInTopThird = row.y < topThirdThreshold, topThirdThreshold = minY + docHeight / 3
isInTopThird(y, doc) == 3 * y.n < (3 * doc.minY + (doc.maxY - doc.minY)) * y.d

\* rightmostX - leftmostX of a row whose words are sorted by x0
rowWidthOf(ws) == ws[Len(ws)].bbox.x1 - ws[1].bbox.x0

\* gaps.push(row.words[i].bbox.x0 - row.words[i-1].bbox.x1)
gapsOf(ws) == [i \in 1..(Len(ws) - 1) |-> ws[i + 1].bbox.x0 - ws[i].bbox.x1]

RECURSIVE SumSeq(_)
SumSeq(s) == IF s = <<>> THEN 0 ELSE Head(s) + SumSeq(Tail(s))

\* coeffVar = stdDev / avgGap < 0.7, with S the sum of the n gaps and Q the sum of
\* their squares: avgGap = S/n, stdDev^2 = (n*Q - S*S)/n^2.
\*   S < 0: coeffVar <= 0, below 0.7;  S = 0: coeffVar is Infinity or NaN;
\*   S > 0: stdDev < 0.7 * avgGap  <=>  100 * (n*Q - S*S) < 49 * S*S.
hasEvenSpacing(ws) ==
    IF Len(ws) >= 3
    THEN LET gaps == gapsOf(ws)
             n == Len(gaps)
             S == SumSeq(gaps)
             Q == SumSeq([i \in 1..n |-> gaps[i] * gaps[i]])
         IN  IF S < 0 THEN TRUE
             ELSE IF S = 0 THEN FALSE
             ELSE 100 * (n * Q - S * S) < 49 * S * S
    ELSE FALSE

\* faulty variant of structuralHeader: rowWidthRatio >= 0.5
structuralHeader_atLeastHalf(row, doc) ==
    /\ Len(row.words) >= 3
    /\ 2 * rowWidthOf(row.words) >= doc.maxX - doc.minX
    /\ 3 * row.y.n < (3 * doc.minY + (doc.maxY - doc.minY)) * row.y.d
    /\ hasEvenSpacing(row.words)

\* the structural half of isHeaderRow
structuralHeader(row, doc) ==
    /\ Len(row.words) >= 3
    /\ RatioGreater(rowWidthOf(row.words), doc.maxX - doc.minX, 1, 2)
    /\ isInTopThird(row.y, doc)
    /\ hasEvenSpacing(row.words)

\* faulty variant of isHeaderRow: the two signals are and-combined
isHeaderRow_and(row, doc) ==
    /\ \E t \in 1..Len(headerTerms) : includes(rowTextOf(row.words), headerTerms[t])
    /\ Len(row.words) >= 3
    /\ RatioGreater(rowWidthOf(row.words), doc.maxX - doc.minX, 1, 2)
    /\ 3 * row.y.n < (3 * doc.minY + (doc.maxY - doc.minY)) * row.y.d
    /\ hasEvenSpacing(row.words)

\* const isHeaderRow = containsHeaderTerm || (structural criteria); row.words sorted by x0
isHeaderRow(row, doc) == containsHeaderTerm(row.words) \/ structuralHeader(row, doc)

\* rows.forEach((row, index) => ...) sorts each row's words in place
sortWordsInRows(rows) ==
    [i \in 1..Len(rows) |-> [y |-> rows[i].y, words |-> SortByX0(rows[i].words)]]

\* indices pushed by the main pass, ascending (0-based, as in the code)
RECURSIVE mainHeaderIndices(_, _, _)
mainHeaderIndices(rows, doc, k) ==
    IF k = 0 THEN <<>>
    ELSE LET before == mainHeaderIndices(rows, doc, k - 1)
         IN  IF isHeaderRow(rows[k], doc) THEN Append(before, k - 1) ELSE before

\* faulty variant of fallbackHeaderIndices: every row is scanned, not only the first 5
fallbackHeaderIndices_noLimit(rows, doc) ==
    LET cand == {i \in 0..(Len(rows) - 1) :
                    /\ Len(rows[i + 1].words) >= 3
                    /\ RatioGreater(rowWidthOf(rows[i + 1].words),
                                    doc.maxX - doc.minX, 2, 5)}
    IN  IF cand = {} THEN <<>> ELSE << CHOOSE i \in cand : \A j \in cand : i <= j >>

\* the fallback loop: first i < min(5, rows.length) with >= 3 words and ratio > 0.4
fallbackHeaderIndices(rows, doc) ==
    LET cand == {i \in 0..(Min(5, Len(rows)) - 1) :
                    /\ Len(rows[i + 1].words) >= 3
                    /\ RatioGreater(rowWidthOf(rows[i + 1].words),
                                    doc.maxX - doc.minX, 2, 5)}
    IN  IF cand = {} THEN <<>> ELSE << CHOOSE i \in cand : \A j \in cand : i <= j >>

\* potentialHeaderIndices after both passes
headerIndices(rows, doc) ==
    LET main == mainHeaderIndices(rows, doc, Len(rows))
    IN  IF Len(main) = 0 /\ Len(rows) > 1 THEN fallbackHeaderIndices(rows, doc) ELSE main

-----------------------------------------------------------------------------
(* Cells, padding, markup *)

\* faulty variant of cellLoop: a new cell starts when gap < gapThreshold
RECURSIVE cellLoop_inverted(_, _, _)
cellLoop_inverted(ws, g, k) ==
    IF k = 1 THEN [cells |-> <<>>, cur |-> ws[1].text]
    ELSE LET st == cellLoop_inverted(ws, g, k - 1)
             gap == ws[k].bbox.x0 - ws[k - 1].bbox.x1
         IN  IF gap < g
             THEN [cells |-> Append(st.cells, st.cur), cur |-> ws[k].text]
             ELSE [cells |-> st.cells, cur |-> st.cur \o <<" ">> \o ws[k].text]

\* faulty variant of cellLoop: a new cell starts when gap >= gapThreshold
RECURSIVE cellLoop_atLeast(_, _, _)
cellLoop_atLeast(ws, g, k) ==
    IF k = 1 THEN [cells |-> <<>>, cur |-> ws[1].text]
    ELSE LET st == cellLoop_atLeast(ws, g, k - 1)
             gap == ws[k].bbox.x0 - ws[k - 1].bbox.x1
         IN  IF gap >= g
             THEN [cells |-> Append(st.cells, st.cur), cur |-> ws[k].text]
             ELSE [cells |-> st.cells, cur |-> st.cur \o <<" ">> \o ws[k].text]

\* the cell loop of structuredRows for one row (words sorted by x0), threshold g:
\* cells closed so far and currentCellText after the first k words
RECURSIVE cellLoop(_, _, _)
cellLoop(ws, g, k) ==
    IF k = 1 THEN [cells |-> <<>>, cur |-> ws[1].text]
    ELSE LET st == cellLoop(ws, g, k - 1)
             gap == ws[k].bbox.x0 - ws[k - 1].bbox.x1
         IN  IF gap > g
             THEN [cells |-> Append(st.cells, st.cur), cur |-> ws[k].text]
             ELSE [cells |-> st.cells, cur |-> st.cur \o <<" ">> \o ws[k].text]

segment(ws, g) ==
    IF Len(ws) = 0 THEN <<>>
    ELSE LET st == cellLoop(ws, g, Len(ws)) IN Append(st.cells, st.cur)

\* rows.map(row => { row.words.sort(...); ... return cells; })
structuredRowsOf(rows) ==
    [i \in 1..Len(rows) |-> segment(SortByX0(rows[i].words), gapThreshold)]

RECURSIVE MaxLen(_)
MaxLen(rs) == IF rs = <<>> THEN 0 ELSE Max(Len(Head(rs)), MaxLen(Tail(rs)))

\* Math.max(...structuredRows.map(r => r.length), 1)
numColumnsOf(structuredRows) == Max(MaxLen(structuredRows), 1)

\* faulty variant of padRow: while (newRow.length < numColumns - 1)
padRow_oneShort(row, numColumns) ==
    row \o [i \in 1..(IF Len(row) < numColumns - 1 THEN numColumns - 1 - Len(row) ELSE 0) |-> Dash]

\* faulty variant of padRow: the placeholders are put in front (unshift)
padRow_front(row, numColumns) ==
    [i \in 1..(IF Len(row) < numColumns THEN numColumns - Len(row) ELSE 0) |-> Dash] \o row

\* newRow = row.slice(); while (newRow.length < numColumns) newRow.push(placeholder)
padRow(row, numColumns) ==
    row \o [i \in 1..(IF Len(row) < numColumns THEN numColumns - Len(row) ELSE 0) |-> Dash]

\* faulty variant of paddedRowsOf: rows of a single cell are filtered out
paddedRowsOf_filtered(structuredRows) ==
    LET kept == SelectSeq(structuredRows, LAMBDA r : Len(r) > 1)
    IN  [i \in 1..Len(kept) |-> kept[i] \o
            [j \in 1..(Max(MaxLen(kept), 1) - Len(kept[i])) |-> Dash]]

paddedRowsOf(structuredRows) ==
    [i \in 1..Len(structuredRows) |-> padRow(structuredRows[i], numColumnsOf(structuredRows))]

\* cell.trim() === "" ? placeholder : cell.trim()
cellContent(cell) == IF trim(cell) = <<>> THEN Dash ELSE trim(cell)

RECURSIVE cellsHtml(_, _, _)
cellsHtml(row, open, close) ==
    IF row = <<>> THEN <<>>
    ELSE <<open>> \o cellContent(Head(row)) \o <<close>> \o cellsHtml(Tail(row), open, close)

\* faulty variant of rowsHtml: the header test uses the 1-based row number
RECURSIVE rowsHtml_oneBased(_, _, _)
rowsHtml_oneBased(padded, hdr, k) ==
    IF k = 0 THEN <<>>
    ELSE rowsHtml_oneBased(padded, hdr, k - 1) \o
         (IF \E h \in 1..Len(hdr) : hdr[h] = k
          THEN <<"<tr class='header-row'>">> \o cellsHtml(padded[k], "<th>", "</th>")
          ELSE <<"<tr>">> \o cellsHtml(padded[k], "<td>", "</td>")) \o
         <<"</tr>">>

\* the markup is a string; tags are kept as single elements of the sequence
RECURSIVE rowsHtml(_, _, _)
rowsHtml(padded, hdr, k) ==
    IF k = 0 THEN <<>>
    ELSE rowsHtml(padded, hdr, k - 1) \o
         (IF \E h \in 1..Len(hdr) : hdr[h] = k - 1
          THEN <<"<tr class='header-row'>">> \o cellsHtml(padded[k], "<th>", "</th>")
          ELSE <<"<tr>">> \o cellsHtml(padded[k], "<td>", "</td>")) \o
         <<"</tr>">>

htmlOf(padded, hdr) == <<"<table>">> \o rowsHtml(padded, hdr, Len(padded)) \o <<"</table>">>

-----------------------------------------------------------------------------
(* The whole call *)

\* return { structuredData: [], htmlTable: "<table></table>" }
emptyResult ==
    [status |-> "ok", structuredData |-> <<>>, htmlTable |-> <<"<table>", "</table>">>,
     rows |-> <<>>, mainHeaders |-> <<>>, potentialHeaderIndices |-> <<>>,
     structuredRows |-> <<>>]

\* a TypeError leaves the function: nothing is returned
thrown ==
    [status |-> "threw", structuredData |-> <<>>, htmlTable |-> <<>>,
     rows |-> <<>>, mainHeaders |-> <<>>, potentialHeaderIndices |-> <<>>,
     structuredRows |-> <<>>]

\* words.length on a missing argument, word.bbox.y0 on a word without bbox (sort
\* comparator, bounds loop) and w.text.toLowerCase() on a word without text (header
\* pass) raise a TypeError
raisesTypeError(ws, given) ==
    ~given \/ \E i \in 1..Len(ws) : ~ws[i].hasBBox \/ ~ws[i].hasText

\* faulty variant of isEmptyInput: if (words.length === 0), no test for a missing list
isEmptyInput_noNullTest(ws, given) == given /\ Len(ws) = 0

\* if (!words || words.length === 0) return ...
isEmptyInput(ws, given) == ~given \/ Len(ws) = 0

\* faulty variant of callerArrayAfter: words.sort(...) without the copy
callerArrayAfter_inPlace(ws, given) ==
    IF isEmptyInput(ws, given) THEN ws ELSE sortedWordsOf(ws)

\* the caller's array after the call.  The only writes to arrays are the sort
\* of line 708, which acts on the copy [...words], the pushes to rows and to
\* the row.words arrays the function created (lines 737, 741) and the sort of
\* those arrays (line 856); no field of a word is assigned.
callerArrayAfter(ws, given) == ws

transformOcrWordsToTable_BBox(ws, given) ==
    IF isEmptyInput(ws, given) THEN emptyResult
    ELSE IF raisesTypeError(ws, given) THEN thrown
    ELSE LET sortedWords == sortedWordsOf(ws)
             doc == DocBounds(sortedWords)
             rows == sortWordsInRows(sortRows(groupRows(sortedWords, Len(sortedWords))))
             hdr == headerIndices(rows, doc)
             structuredRows == structuredRowsOf(rows)
             paddedRows == paddedRowsOf(structuredRows)
         IN  [status |-> "ok",
              structuredData |-> paddedRows,
              htmlTable |-> htmlOf(paddedRows, hdr),
              rows |-> rows,
              mainHeaders |-> mainHeaderIndices(rows, doc, Len(rows)),
              potentialHeaderIndices |-> hdr,
              structuredRows |-> structuredRows]

-----------------------------------------------------------------------------
(* Inputs *)

MaxWords == 3

W(t, x0, y0, x1, y1) ==
    [text |-> t, hasText |-> TRUE, hasBBox |-> TRUE,
     bbox |-> [x0 |-> x0, y0 |-> y0, x1 |-> x1, y1 |-> y1]]

tTest == <<"T","e","s","t">>
tResult == <<"R","e","s","u","l","t">>
tUnit == <<"U","n","i","t">>
tHb == <<"H","b">>
tVal == <<"1","3",".","5">>
tGdl == <<"g","/","d","L">>
tHemoglobine == <<"H","e","m","o","g","l","o","b","i","n","e">>

XSpans == {<<0, 40>>, <<60, 100>>, <<200, 260>>}
YSpans == {<<0, 10>>, <<0, 60>>, <<50, 60>>}

\* a word without bounding box, a word without text
noBBoxWord == [text |-> tHb, hasText |-> TRUE, hasBBox |-> FALSE,
               bbox |-> [x0 |-> 0, y0 |-> 0, x1 |-> 0, y1 |-> 0]]
noTextWord == [text |-> <<>>, hasText |-> FALSE, hasBBox |-> TRUE,
               bbox |-> [x0 |-> 0, y0 |-> 0, x1 |-> 40, y1 |-> 10]]

\* plain words at every position, header-term words at the corners
WordPool ==
    {W(tHb, x[1], y[1], x[2], y[2]) : x \in XSpans, y \in YSpans}
        \cup {W(tTest, x[1], y[1], x[2], y[2]) : x \in {<<0, 40>>, <<200, 260>>},
                                                 y \in {<<0, 10>>, <<50, 60>>}}
        \cup {noBBoxWord, noTextWord}

BoundedLists == UNION {[1..n -> WordPool] : n \in 0..MaxWords}

\* the header row of the spec's scenarios, and the same boxes with texts that
\* contain no header term
headerRow == <<W(tTest, 0, 0, 40, 10), W(tResult, 200, 0, 260, 10), W(tUnit, 400, 0, 440, 10)>>
plainRow == <<W(tHb, 0, 0, 40, 10), W(tVal, 200, 0, 260, 10), W(tGdl, 400, 0, 440, 10)>>
dataRow == <<W(tHemoglobine, 0, 50, 100, 60), W(tVal, 200, 50, 240, 60), W(tGdl, 400, 50, 440, 60)>>

\* documents longer than MaxWords: the spec's scenarios 1-4 and rows at the
\* thresholds of the header tests
Scenarios ==
    { headerRow,
      plainRow,
      headerRow \o dataRow,
      plainRow \o dataRow,
      headerRow \o <<dataRow[1], dataRow[3]>>,
      <<W(tHb, 0, 0, 40, 10), W(tVal, 0, 50, 40, 60), W(tGdl, 0, 100, 40, 110)>>,
      \* a three-word top row spanning exactly half, just over half, 40% and
      \* just over 40% of the document width
      plainRow \o <<W(tHb, 840, 50, 880, 60)>>,
      plainRow \o <<W(tHb, 839, 50, 879, 60)>>,
      plainRow \o <<W(tHb, 1060, 50, 1100, 60)>>,
      plainRow \o <<W(tHb, 1059, 50, 1099, 60)>>,
      \* the same with the top row uneven (gaps 0 and 360)
      <<W(tHb, 0, 0, 40, 10), W(tVal, 40, 0, 60, 10), W(tGdl, 420, 0, 440, 10),
        W(tHb, 800, 50, 840, 60)>> }

\* a one-word row and a three-word row of plain texts with its top at y
oneWordAt(y) == <<W(tHb, 0, y, 40, y + 10)>>
threeWordsAt(y) ==
    <<W(tHb, 0, y, 40, y + 10), W(tVal, 200, y, 260, y + 10), W(tGdl, 400, y, 440, y + 10)>>

tBlank == <<" ">>
tPadded == <<" ", "H", "b", " ">>

\* documents at the thresholds of the row grouping and of the fallback pass
RowScenarios ==
    { \* vertical centres exactly 30 apart, 29 apart, and 5, 20, 34
      <<W(tHb, 0, 0, 40, 10), W(tVal, 0, 30, 40, 40), W(tGdl, 0, 60, 40, 70)>>,
      <<W(tVal, 0, 29, 40, 39), W(tHb, 100, 0, 140, 10)>>,
      <<W(tGdl, 200, 29, 240, 39), W(tVal, 100, 15, 140, 25), W(tHb, 0, 0, 40, 10)>>,
      \* gaps of 19, 20 and 21 pixels in one row
      <<W(tHb, 0, 0, 40, 10), W(tVal, 59, 0, 100, 10), W(tGdl, 120, 0, 160, 10),
        W(tHb, 181, 0, 200, 10)>>,
      \* the fallback pass: the qualifying row is the second, the fifth, the sixth
      oneWordAt(0) \o threeWordsAt(50),
      oneWordAt(0) \o threeWordsAt(50) \o threeWordsAt(100),
      oneWordAt(0) \o oneWordAt(50) \o oneWordAt(100) \o oneWordAt(150) \o threeWordsAt(200),
      oneWordAt(0) \o oneWordAt(50) \o oneWordAt(100) \o oneWordAt(150) \o oneWordAt(200)
          \o threeWordsAt(250),
      \* blank and space-padded texts
      <<W(tBlank, 0, 0, 40, 10), W(tPadded, 200, 0, 260, 10), W(tTest, 0, 50, 40, 60)>> }

\* words with a box of zero width or height, or with negative coordinates
DegenerateScenarios ==
    { <<W(tHb, 10, 5, 10, 5)>>,
      <<W(tHb, 0, 0, 40, 10), W(tVal, 200, 5, 200, 5)>>,
      <<W(tVal, -20, -10, 20, 0), W(tHb, 100, -10, 140, 0)>>,
      <<W(tHb, 0, 0, 0, 10), W(tTest, 0, 50, 40, 50)>> }

Inputs == BoundedLists \cup Scenarios \cup RowScenarios \cup DegenerateScenarios

noResult ==
    [status |-> "none", structuredData |-> <<>>, htmlTable |-> <<>>,
     rows |-> <<>>, mainHeaders |-> <<>>, potentialHeaderIndices |-> <<>>,
     structuredRows |-> <<>>]

-----------------------------------------------------------------------------
(* The hook around the function: handleOcr, extractTextFromPdf,             *)
(* extractTextFromImage, cancelProcessing, cleanupWorker (lines 640-695 and *)
(* 927-1120).  An async function runs without interruption from one await   *)
(* to the next; each action below is one such stretch of one invocation,    *)
(* started when the awaited operation settles.  An await of a promise that  *)
(* is already fulfilled (cleanupWorker with no worker) continues in the     *)
(* same stretch.  Of the state object the fields structuredData and         *)
(* showRawJson are left out: they are written together with extractedText   *)
(* and rawOcrJson.  A text, table or raw JSON produced by run r is r, the    *)
(* empty string is 0.  A worker and an AbortController are named after the   *)
(* run that created them; null is 0.                                        *)

VARIABLES
    hs,                 \* the state object of useState<OcrState>
    abortControllerRef, \* abortControllerRef.current
    aborted,            \* the controllers whose signal is aborted
    workerRef,          \* workerRef.current
    terminated,         \* the workers on which terminate() was called
    run,                \* the handleOcr invocations: where each one stands
    cancel,             \* the cancelProcessing invocations
    hist,               \* per invocation of handleOcr: what it did (for the properties)
    an                  \* the handleAnalysis invocation and its environment

hookVars == <<hs, abortControllerRef, aborted, workerRef, terminated, run, cancel, hist, an>>

vars == <<tableVars, hookVars>>

MaxRuns == 2
MaxCancels == 1
MaxPages == 2

Runs == 1..MaxRuns
Cancels == 1..MaxCancels

\* useState<OcrState>({...}), lines 656-670
initialState ==
    [extractedText |-> 0, jsonText |-> 0, analysisText |-> "", rawOcrJson |-> 0,
     isOcrProcessing |-> FALSE, isAnalysisProcessing |-> FALSE, error |-> "null",
     processingStatus |-> "", progress |-> Rat(0, 1), currentPage |-> 0, totalPages |-> 0]

\* setState(prev => ({ ...prev, ...updates }))
updateState(s, updates) ==
    [k \in DOMAIN s |-> IF k \in DOMAIN updates THEN updates[k] ELSE s[k]]

\* updateState({ error })
setError(s, error) == updateState(s, [error |-> error])

\* the outcome of one stretch of a handleOcr invocation r: the shared objects
\* after it, the invocation's own record, and what it did on the way
stepOf(r) ==
    [hs |-> hs, ctrl |-> abortControllerRef, workerRef |-> workerRef,
     terminated |-> terminated, run |-> run[r],
     writes |-> <<>>, observed |-> FALSE, wrote |-> FALSE, ended |-> FALSE,
     failed |-> FALSE, terminatedNow |-> {}, extractSettled |-> FALSE]

\* updateState(updates) within a stretch
withState(o, updates) == [o EXCEPT !.hs = updateState(@, updates)]

\* setProcessingStatus(status, progress)
setProcessingStatus(o, status, progress) ==
    [o EXCEPT !.hs = updateState(@, [processingStatus |-> status, progress |-> Norm(progress)]),
              !.writes = Append(@, Norm(progress))]

at(o, label) == [o EXCEPT !.run.pc = label]

\* the call workerRef.current.terminate() of cleanupWorker, up to its await
terminateCall(o) ==
    [o EXCEPT !.terminated = @ \cup {o.workerRef}, !.terminatedNow = @ \cup {o.workerRef}]

\* handleOcr, lines 1108-1119: catch (setError) and finally
handleOcrCatch(o, message) ==
    LET caught == IF message = "Operation cancelled"
                  THEN withState(o, [error |-> "Operation cancelled by user"])
                  ELSE withState(o, [error |-> message])
        final == withState(caught, [isOcrProcessing |-> FALSE, processingStatus |-> ""])
    IN  [at(final, "done") EXCEPT !.ended = TRUE, !.failed = TRUE, !.extractSettled = TRUE]

\* handleOcr, lines 1099-1107 and the finally: the extraction returned
handleOcrSuccess(o) ==
    LET r == o.run.id
        s1 == setProcessingStatus(o, "Structuring data...", Rat(90, 1))
        s2 == [withState(s1, [extractedText |-> r, jsonText |-> r, rawOcrJson |-> r,
                              progress |-> Rat(100, 1)])
                  EXCEPT !.writes = Append(@, Rat(100, 1)), !.wrote = TRUE]
        final == withState(s2, [isOcrProcessing |-> FALSE, processingStatus |-> ""])
    IN  [at(final, "done") EXCEPT !.ended = TRUE, !.extractSettled = TRUE]

\* catch (error) { await cleanupWorker(); throw new Error('Failed to extract text from ...') }
\* (lines 1001-1004, 1055-1058): the message handleOcr receives
failureMessage(kind, message) ==
    IF kind = "pdf" THEN "Failed to extract text from PDF"
    ELSE "Failed to extract text from image"

\* the extraction's catch rethrows, after its cleanupWorker has finished
rethrow(o) == handleOcrCatch(o, failureMessage(o.run.kind, o.run.thrown))

\* faulty variant of catchOf: the catch rethrows without calling cleanupWorker
catchOf_noCleanup(o, message) == rethrow([o EXCEPT !.run.thrown = message])

\* an error with this message is thrown inside the try of an extraction:
\* the catch calls cleanupWorker, which awaits terminate() if there is a worker
catchOf(o, message) ==
    LET c == [o EXCEPT !.run.thrown = message] IN
    IF c.workerRef # 0 THEN at(terminateCall(c), "catchCleanup") ELSE rethrow(c)

\* the word lists the OCR engine hands to the table function in the hook
HookWordLists == {<<>>, plainRow, <<noBBoxWord>>}

\* const { structuredData, htmlTable } = transformOcrWordsToTable_BBox(allWords);
\* return {...}, inside the try of the extraction (lines 999-1000, 1049-1050)
finishExtraction(o, ws) ==
    IF transformOcrWordsToTable_BBox(ws, TRUE).status = "threw"
    THEN catchOf(o, "TypeError")
    ELSE handleOcrSuccess(o)

\* extractTextFromPdf, lines 994-1000: after the cleanupWorker that follows the loop
finishPdf(o, ws) ==
    IF ~o.run.fullText
    THEN catchOf(o, "No text content was found in the PDF")
    ELSE finishExtraction(o, ws)

\* extractTextFromPdf, line 992: await cleanupWorker() after the page loop
afterLoop(o, ws) ==
    IF o.workerRef # 0 THEN at(terminateCall(o), "cleanup") ELSE finishPdf(o, ws)

\* extractTextFromPdf, lines 952-968: the head of the page loop for page i,
\* up to the awaits of getPage and render
loopHead(o, i) ==
    IF o.run.id \in aborted
    THEN catchOf([o EXCEPT !.observed = TRUE], "Operation cancelled")
    ELSE LET shown == setProcessingStatus(withState(o, [currentPage |-> i]),
                          "Processing page", Rat((i - 1) * 100, o.run.numPages))
         IN  [at(shown, "render") EXCEPT !.run.page = i]

\* what a stretch of invocation r leaves in its history record
histAfter(r, o) ==
    LET h == hist[r]
        all == <<h.last>> \o o.writes
        down == \E k \in 1..Len(o.writes) : RLess(all[k + 1], all[k])
        out == \E k \in 1..Len(o.writes) :
                   RLess(o.writes[k], Rat(0, 1)) \/ RLess(Rat(100, 1), o.writes[k])
        others == {q \in Runs : q # r /\ run[q].pc \notin {"idle", "done"}}
    IN  [h EXCEPT
            !.observed = @ \/ o.observed,
            !.wroteAfterCancel = @ \/ (o.wrote /\ h.cancelled),
            !.last = all[Len(all)],
            !.decreased = @ \/ down,
            !.outOfRange = @ \/ out,
            !.killedOther = @ \/ (o.terminatedNow \cap others # {}),
            !.clearedOther = @ \/ (o.ended /\ others # {} /\ hs.isOcrProcessing),
            !.settled = IF o.extractSettled
                        THEN [workerRef |-> o.workerRef,
                              live |-> o.run.made /\ r \notin o.terminated]
                        ELSE @,
            !.endState = IF o.ended
                         THEN [isOcrProcessing |-> o.hs.isOcrProcessing,
                               processingStatus |-> o.hs.processingStatus,
                               extractedText |-> o.hs.extractedText,
                               error |-> o.hs.error, failed |-> o.failed]
                         ELSE @]

\* the outcome o of a stretch of invocation r becomes the next state
Apply(r, o) ==
    /\ hs' = o.hs
    /\ abortControllerRef' = o.ctrl
    /\ workerRef' = o.workerRef
    /\ terminated' = o.terminated
    /\ run' = [run EXCEPT ![r] = o.run]
    /\ hist' = [hist EXCEPT ![r] = histAfter(r, o)]
    /\ UNCHANGED <<aborted, cancel, an>>
    /\ UNCHANGED tableVars

noRun(r) ==
    [id |-> r, pc |-> "idle", kind |-> "none", page |-> 0, numPages |-> 1,
     fullText |-> FALSE, made |-> FALSE, thrown |-> ""]

noHistory ==
    [cancelled |-> FALSE, observed |-> FALSE, wroteAfterCancel |-> FALSE,
     overlapped |-> FALSE, last |-> Rat(0, 1), decreased |-> FALSE, outOfRange |-> FALSE,
     killedOther |-> FALSE, clearedOther |-> FALSE,
     settled |-> [workerRef |-> 0, live |-> FALSE],
     endState |-> [isOcrProcessing |-> FALSE, processingStatus |-> "", extractedText |-> 0,
                   error |-> "null", failed |-> FALSE]]

InFlight(r) == run[r].pc \notin {"idle", "done"}

\* handleOcr(file), lines 1077-1096, and the extraction it calls up to its first
\* await (lines 929-930, 1009-1013).  The button that calls it is rendered
\* only while isOcrProcessing is false (FileUpload.tsx, lines 34-48).
HandleOcr(r, kind) ==
    /\ run[r].pc = "idle"
    /\ IF r = 1 THEN TRUE ELSE run[r - 1].pc # "idle"
    /\ ~hs.isOcrProcessing
    /\ LET reset == updateState(hs,
                       [extractedText |-> 0, jsonText |-> 0, analysisText |-> "",
                        rawOcrJson |-> 0, isOcrProcessing |-> TRUE,
                        isAnalysisProcessing |-> FALSE, error |-> "null",
                        processingStatus |-> "", progress |-> Rat(0, 1),
                        currentPage |-> 0, totalPages |-> 0])
           o == [stepOf(r) EXCEPT !.hs = reset, !.run.kind = kind]
           first == IF kind = "pdf"
                    THEN at(setProcessingStatus(o, "Loading PDF document...", Rat(0, 1)), "arrayBuffer")
                    ELSE at(setProcessingStatus(o, "Preparing image for OCR...", Rat(0, 1)), "onload")
       IN  /\ hs' = first.hs
           /\ run' = [run EXCEPT ![r] = first.run]
           /\ hist' = [q \in Runs |->
                         IF q = r
                         THEN [hist[q] EXCEPT !.overlapped = \/ \E x \in Runs : InFlight(x)
                                                             \/ \E c \in Cancels : cancel[c] = "cleanup"]
                         ELSE IF InFlight(q) THEN [hist[q] EXCEPT !.overlapped = TRUE]
                         ELSE hist[q]]
    /\ UNCHANGED <<abortControllerRef, aborted, workerRef, terminated, cancel, an>>
    /\ UNCHANGED tableVars

\* pdfFile.arrayBuffer() settles (line 930); lines 931-936 up to await loadingTask.promise
PdfArrayBuffer(r) ==
    /\ run[r].pc = "arrayBuffer"
    /\ \E ok \in BOOLEAN :
          Apply(r, IF ok THEN at([stepOf(r) EXCEPT !.ctrl = r], "loading")
                   ELSE catchOf(stepOf(r), "arrayBuffer rejected"))

\* loadingTask.promise settles (line 936); lines 937-942 up to await createWorker()
PdfLoaded(r) ==
    /\ run[r].pc = "loading"
    /\ \/ \E n \in 1..MaxPages :
             Apply(r, at([withState(stepOf(r), [totalPages |-> n]) EXCEPT !.run.numPages = n],
                         "createWorker"))
       \/ Apply(r, catchOf(stepOf(r), "getDocument rejected"))

\* createWorker() settles (line 942); lines 943-968 up to the awaits of the first page
PdfWorkerCreated(r) ==
    /\ run[r].pc = "createWorker"
    /\ run[r].kind = "pdf"
    /\ \E ok \in BOOLEAN :
          Apply(r, IF ok
                   THEN loopHead([stepOf(r) EXCEPT !.workerRef = r, !.run.made = TRUE], 1)
                   ELSE catchOf(stepOf(r), "createWorker rejected"))

\* getPage and render settle (lines 960-968); lines 969-973 up to await recognize,
\* or lines 988-989 when workerRef.current is null
PdfRendered(r) ==
    /\ run[r].pc = "render"
    /\ \E ok \in BOOLEAN :
          Apply(r, IF ~ok THEN catchOf(stepOf(r), "render rejected")
                   ELSE IF workerRef # 0
                   THEN at(setProcessingStatus(stepOf(r), "OCR Processing page",
                               Rat((run[r].page - 1) * 100 + 50, run[r].numPages)), "recognize")
                   ELSE at(stepOf(r), "timeout"))

\* recognize settles (line 973); lines 974-989 up to the await of the timer
PdfRecognized(r) ==
    /\ run[r].pc = "recognize"
    /\ run[r].kind = "pdf"
    /\ \E outcome \in {"text", "blank", "rejected"} :
          Apply(r, IF outcome = "rejected" THEN catchOf(stepOf(r), "recognize rejected")
                   ELSE at([setProcessingStatus(stepOf(r), "Completed page",
                                Rat(run[r].page * 100, run[r].numPages))
                              EXCEPT !.run.fullText = @ \/ outcome = "text"], "timeout"))

\* the 100 ms timer fires (line 989): the next page, or lines 992-1000 after the loop
PdfTimeout(r) ==
    /\ run[r].pc = "timeout"
    /\ run[r].kind = "pdf"
    /\ \E ws \in HookWordLists :
          Apply(r, IF run[r].page < run[r].numPages
                   THEN loopHead(stepOf(r), run[r].page + 1)
                   ELSE afterLoop(stepOf(r), ws))

\* terminate() of the cleanupWorker of line 992 settles: workerRef.current = null
\* (line 693), then lines 994-1000
PdfCleanedUp(r) ==
    /\ run[r].pc = "cleanup"
    /\ run[r].kind = "pdf"
    /\ \E ws \in HookWordLists :
          Apply(r, finishPdf([stepOf(r) EXCEPT !.workerRef = 0], ws))

\* terminate() of the cleanupWorker of a catch settles: workerRef.current = null,
\* then the throw of lines 1003 / 1057 and the catch and finally of handleOcr
CatchCleanedUp(r) ==
    /\ run[r].pc = "catchCleanup"
    /\ Apply(r, rethrow([stepOf(r) EXCEPT !.workerRef = 0]))

\* the image has loaded (line 1013); lines 1015-1024 up to await createWorker()
ImageLoaded(r) ==
    /\ run[r].pc = "onload"
    /\ Apply(r, at(setProcessingStatus(stepOf(r), "Performing OCR on image...", Rat(25, 1)),
                   "createWorker"))

\* createWorker() settles (line 1024); lines 1026-1034 up to await recognize.
\* workerRef.current was assigned on the line before the test of line 1026, so
\* the branch of lines 1053-1054 ('Failed to create worker') is never taken.
ImageWorkerCreated(r) ==
    /\ run[r].pc = "createWorker"
    /\ run[r].kind = "image"
    /\ \E ok \in BOOLEAN :
          Apply(r, IF ok
                   THEN at(setProcessingStatus([stepOf(r) EXCEPT !.workerRef = r, !.run.made = TRUE],
                               "Starting OCR...", Rat(30, 1)), "recognize")
                   ELSE catchOf(stepOf(r), "createWorker rejected"))

\* recognize settles (line 1034); lines 1035-1037 up to the await in cleanupWorker,
\* or on to lines 1038-1050 when there is no worker to terminate
ImageRecognized(r) ==
    /\ run[r].pc = "recognize"
    /\ run[r].kind = "image"
    /\ \E ok \in BOOLEAN, ws \in HookWordLists :
          Apply(r, IF ~ok THEN catchOf(stepOf(r), "recognize rejected")
                   ELSE LET o == setProcessingStatus(stepOf(r),
                                     "OCR completed, processing results...", Rat(90, 1))
                        IN  IF o.workerRef # 0 THEN at(terminateCall(o), "cleanup")
                            ELSE finishExtraction(o, ws))

\* terminate() of the cleanupWorker of line 1037 settles: workerRef.current = null,
\* then lines 1038-1050
ImageCleanedUp(r) ==
    /\ run[r].pc = "cleanup"
    /\ run[r].kind = "image"
    /\ \E ws \in HookWordLists :
          Apply(r, finishExtraction([stepOf(r) EXCEPT !.workerRef = 0], ws))

\* the updateState of cancelProcessing, lines 1066-1073
cancelReset(s) ==
    updateState(s, [isOcrProcessing |-> FALSE, processingStatus |-> "", progress |-> Rat(0, 1),
                    currentPage |-> 0, jsonText |-> 0, rawOcrJson |-> 0])

\* cancelProcessing(), lines 1061-1065 up to the await in cleanupWorker, or to its
\* end when there is no worker.  The button that calls it is rendered only
\* while isOcrProcessing is true (FileUpload.tsx, lines 34-48).
CancelProcessing(c) ==
    /\ cancel[c] = "idle"
    /\ IF c = 1 THEN TRUE ELSE cancel[c - 1] # "idle"
    /\ hs.isOcrProcessing
    /\ aborted' = IF abortControllerRef # 0 THEN aborted \cup {abortControllerRef} ELSE aborted
    /\ IF workerRef # 0
       THEN /\ terminated' = terminated \cup {workerRef}
            /\ cancel' = [cancel EXCEPT ![c] = "cleanup"]
            /\ hs' = hs
       ELSE /\ terminated' = terminated
            /\ cancel' = [cancel EXCEPT ![c] = "done"]
            /\ hs' = cancelReset(hs)
    /\ hist' = [q \in Runs |-> IF InFlight(q) THEN [hist[q] EXCEPT !.cancelled = TRUE] ELSE hist[q]]
    /\ UNCHANGED <<abortControllerRef, workerRef, run, an>>
    /\ UNCHANGED tableVars

\* terminate() of the cleanupWorker of cancelProcessing settles:
\* workerRef.current = null (line 693), then lines 1066-1073
CancelCleanedUp(c) ==
    /\ cancel[c] = "cleanup"
    /\ workerRef' = 0
    /\ hs' = cancelReset(hs)
    /\ cancel' = [cancel EXCEPT ![c] = "done"]
    /\ UNCHANGED <<abortControllerRef, aborted, terminated, run, hist, an>>
    /\ UNCHANGED tableVars

\* the strings analyzeBloodwork resolves to (openai.ts, lines 18, 36, 39)
mockAnalysis == "API key not configured. This is a mock analysis response."
noAnalysis == "No analysis available"
analysisError == "Error: Unable to analyze blood work results."

\* faulty variant of analyzeBloodwork: the catch rethrows
analyzeBloodwork_rethrow(hasKey, api) ==
    IF ~hasKey THEN [settled |-> "fulfilled", value |-> mockAnalysis]
    ELSE IF api = "content" THEN [settled |-> "fulfilled", value |-> "analysis"]
    ELSE IF api = "empty" THEN [settled |-> "fulfilled", value |-> noAnalysis]
    ELSE [settled |-> "rejected", value |-> api]

\* analyzeBloodwork (openai.ts, lines 13-41).  api is what the completion call
\* does: it resolves with a message content, with an empty content, with a
\* completion without choices, or it rejects.
analyzeBloodwork(hasKey, api) ==
    IF ~hasKey THEN [settled |-> "fulfilled", value |-> mockAnalysis]
    ELSE IF api = "content" THEN [settled |-> "fulfilled", value |-> "analysis"]
    ELSE IF api = "empty" THEN [settled |-> "fulfilled", value |-> noAnalysis]
    ELSE [settled |-> "fulfilled", value |-> analysisError]

ApiOutcomes == {"content", "empty", "no choices", "rejected"}

\* handleAnalysis(), lines 1122-1127 up to await analyzeBloodwork(...)
HandleAnalysis ==
    /\ an.pc = "idle"
    /\ hs' = updateState(updateState(hs, [isAnalysisProcessing |-> TRUE]),
                         [processingStatus |-> "Analyzing data...", progress |-> Rat(0, 1)])
    /\ an' = [an EXCEPT !.pc = "awaiting", !.errorBefore = hs.error]
    /\ UNCHANGED <<abortControllerRef, aborted, workerRef, terminated, run, cancel, hist>>
    /\ UNCHANGED tableVars

\* analyzeBloodwork settles; handleAnalysis, lines 1128-1139
AnalysisSettled ==
    /\ an.pc = "awaiting"
    /\ \E api \in ApiOutcomes :
          LET res == analyzeBloodwork(an.hasKey, api)
              next == IF res.settled = "fulfilled"
                      THEN updateState(hs, [analysisText |-> res.value, progress |-> Rat(100, 1)])
                      ELSE setError(hs, res.value)
          IN  /\ hs' = updateState(next, [isAnalysisProcessing |-> FALSE, processingStatus |-> ""])
              /\ an' = [an EXCEPT !.pc = "done", !.api = api]
    /\ UNCHANGED <<abortControllerRef, aborted, workerRef, terminated, run, cancel, hist>>
    /\ UNCHANGED tableVars

\* the hook after construction (lines 656-673), nothing called yet
HookIdle ==
    /\ hs = initialState
    /\ abortControllerRef = 0
    /\ aborted = {}
    /\ workerRef = 0
    /\ terminated = {}
    /\ run = [r \in Runs |-> noRun(r)]
    /\ cancel = [c \in Cancels |-> "idle"]
    /\ hist = [r \in Runs |-> noHistory]
    /\ an = [pc |-> "idle", hasKey |-> FALSE, errorBefore |-> "null", api |-> "none"]

-----------------------------------------------------------------------------
(* State machine: one call of the function on one argument *)

Init ==
    /\ \/ present = TRUE /\ words \in Inputs
       \/ present = FALSE /\ words = <<>>
    /\ result = noResult
    /\ pc = "ready"
    /\ caller = words
    /\ HookIdle

Build ==
    /\ pc = "ready"
    /\ result' = transformOcrWordsToTable_BBox(words, present)
    /\ caller' = callerArrayAfter(caller, present)
    /\ pc' = "done"
    /\ UNCHANGED <<words, present>>
    /\ UNCHANGED hookVars

Next == Build

Spec == Init /\ [][Next]_vars

-----------------------------------------------------------------------------
(* The same call on small lists in which words tie on their vertical centre *)
(* and on x0: the lists whose every reordering is compared.                 *)

MaxPermWords == 3

PermPool ==
    { W(tTest, 0, 0, 40, 10), W(tHb, 0, 0, 40, 10), W(tHb, 200, 0, 260, 10),
      W(tHb, 60, 0, 100, 60), W(tHb, 0, 50, 40, 60), W(tTest, 200, 50, 260, 60) }

PermLists == UNION {[1..n -> PermPool] : n \in 0..MaxPermWords}

InitPerm ==
    /\ present = TRUE
    /\ words \in PermLists
    /\ result = noResult
    /\ pc = "ready"
    /\ caller = words
    /\ HookIdle

SpecPerm == InitPerm /\ [][Next]_vars

-----------------------------------------------------------------------------
(* The hook: up to MaxRuns invocations of handleOcr and MaxCancels of       *)
(* cancelProcessing, interleaved at their awaits                             *)

\* no call of the table function is under way outside the hook
TableIdle ==
    /\ words = <<>>
    /\ present = TRUE
    /\ result = noResult
    /\ pc = "ready"
    /\ caller = <<>>

InitHook == TableIdle /\ HookIdle

NextHook ==
    \/ \E r \in Runs, kind \in {"pdf", "image"} : HandleOcr(r, kind)
    \/ \E r \in Runs : PdfArrayBuffer(r)
    \/ \E r \in Runs : PdfLoaded(r)
    \/ \E r \in Runs : PdfWorkerCreated(r)
    \/ \E r \in Runs : PdfRendered(r)
    \/ \E r \in Runs : PdfRecognized(r)
    \/ \E r \in Runs : PdfTimeout(r)
    \/ \E r \in Runs : PdfCleanedUp(r)
    \/ \E r \in Runs : CatchCleanedUp(r)
    \/ \E r \in Runs : ImageLoaded(r)
    \/ \E r \in Runs : ImageWorkerCreated(r)
    \/ \E r \in Runs : ImageRecognized(r)
    \/ \E r \in Runs : ImageCleanedUp(r)
    \/ \E c \in Cancels : CancelProcessing(c)
    \/ \E c \in Cancels : CancelCleanedUp(c)

SpecHook == InitHook /\ [][NextHook]_vars

-----------------------------------------------------------------------------
(* handleAnalysis on the states an OCR run leaves behind *)

\* the state object after a run that succeeded (text of run 1, progress 100) or
\* failed (no text, an error, the progress it had reached), or before any run
AfterOcrStates ==
    {initialState}
    \cup {updateState(initialState, [extractedText |-> 1, jsonText |-> 1, rawOcrJson |-> 1,
                                     progress |-> Rat(100, 1), totalPages |-> n, currentPage |-> n])
             : n \in 0..MaxPages}
    \cup {updateState(initialState, [error |-> e, progress |-> Rat(p, 1), totalPages |-> n])
             : e \in {"Failed to extract text from PDF", "Failed to extract text from image"},
               p \in {0, 25, 30, 50, 90, 100}, n \in 0..MaxPages}

InitAnalysis ==
    /\ TableIdle
    /\ hs \in AfterOcrStates
    /\ abortControllerRef = 0
    /\ aborted = {}
    /\ workerRef = 0
    /\ terminated = {}
    /\ run = [r \in Runs |-> noRun(r)]
    /\ cancel = [c \in Cancels |-> "idle"]
    /\ hist = [r \in Runs |-> noHistory]
    /\ \E k \in BOOLEAN : an = [pc |-> "idle", hasKey |-> k, errorBefore |-> "null", api |-> "none"]

NextAnalysis == HandleAnalysis \/ AnalysisSettled

SpecAnalysis == InitAnalysis /\ [][NextAnalysis]_vars

-----------------------------------------------------------------------------
(* Vocabulary of the properties *)

Done == pc = "done"
Returned == pc = "done" /\ result.status = "ok"

grid == result.structuredData
docOf(ws) == DocBounds(ws)

\* the rows the clustering step produces for a list
clusteredRows(ws) == groupRows(sortedWordsOf(ws), Len(ws))

\* row index i (0-based) was flagged by the main pass / by either pass
InMain(i) == \E h \in 1..Len(result.mainHeaders) : result.mainHeaders[h] = i
Flagged(i) == \E h \in 1..Len(result.potentialHeaderIndices) : result.potentialHeaderIndices[h] = i

\* some word of the row, lower-cased, contains a header term
hasTerm(t) == \E k \in 1..Len(headerTerms) : includes(toLowerCase(t), headerTerms[k])
lexicalMatch(row) == \E w \in 1..Len(row.words) : hasTerm(row.words[w].text)

\* every reordering of a list
Reorderings(ws) ==
    {[i \in 1..Len(ws) |-> ws[p[i]]] : p \in Permutations(1..Len(ws))}

\* two words at different positions that share vertical centre and x0 are the same word
noAmbiguousTie(ws) ==
    \A i, j \in 1..Len(ws) :
        (midY(ws[i]) = midY(ws[j]) /\ ws[i].bbox.x0 = ws[j].bbox.x0) => ws[i] = ws[j]

GapThresholds == {0, 19, 20, 21, 99, 100, 159, 160}

-----------------------------------------------------------------------------
(* Properties *)

\* C1: every row of the returned grid has the same length, and that length is
\* numColumns, the largest number of cells segmented in any row (1 if no row has cells).
C1_Rectangular ==
    Returned =>
        LET counts == {Len(result.structuredRows[i]) : i \in 1..Len(result.structuredRows)}
            numColumns == IF counts \subseteq {0} THEN 1
                          ELSE CHOOSE c \in counts : \A d \in counts : d <= c
        IN  \A i \in 1..Len(grid) : Len(grid[i]) = numColumns

\* a grid was returned in which a short row had to be padded
C1_Witness ==
    /\ Returned
    /\ \E i, j \in 1..Len(result.structuredRows) :
          Len(result.structuredRows[i]) < Len(result.structuredRows[j])

\* C2: the returned grid has exactly as many rows as the clustering step produced.
C2_RowCount == Returned => Len(grid) = Len(clusteredRows(words))

\* a grid of several rows, one flagged as header, one padded
C2_Witness ==
    /\ Returned
    /\ Len(grid) >= 2
    /\ Len(result.potentialHeaderIndices) >= 1
    /\ \E i \in 1..Len(grid) : Len(result.structuredRows[i]) < Len(grid[i])

\* C3 as stated: every reordering of the word list gives the identical grid.
C3_AnyPermutation ==
    Returned =>
        \A p \in Reorderings(words) :
            transformOcrWordsToTable_BBox(p, TRUE).structuredData = grid

\* C3 as amended: every reordering gives the identical grid when no two different
\* words share both their vertical centre and their x0.
C3_PermutationNoTie ==
    (Returned /\ noAmbiguousTie(words)) =>
        \A p \in Reorderings(words) :
            transformOcrWordsToTable_BBox(p, TRUE).structuredData = grid

\* a list without such a tie, given out of order (vertically and horizontally),
\* that yields two rows
C3_Witness ==
    /\ Returned
    /\ Len(grid) = 2
    /\ noAmbiguousTie(words)
    /\ Len(words) = 3
    /\ RLess(midY(words[2]), midY(words[1]))
    /\ \E i, j \in 1..3 : i < j /\ midY(words[i]) = midY(words[j])
                          /\ words[j].bbox.x0 < words[i].bbox.x0
    /\ sortedWordsOf(words) # words

\* C4: for every row and thresholds g1 <= g2, segmenting with g2 gives at most as
\* many cells as segmenting with g1.
C4_Monotone ==
    Returned =>
        \A i \in 1..Len(result.rows) :
            LET cellCount == [g \in GapThresholds |-> Len(segment(result.rows[i].words, g))]
            IN  \A g1, g2 \in GapThresholds : g1 <= g2 => cellCount[g2] <= cellCount[g1]

\* a row of three words that is three cells at a low threshold and fewer at a higher one
C4_Witness ==
    /\ Returned
    /\ \E i \in 1..Len(result.rows) :
          /\ Len(result.rows[i].words) = 3
          /\ Len(segment(result.rows[i].words, 19)) = 3
          /\ Len(segment(result.rows[i].words, 20)) = 2
          /\ Len(segment(result.rows[i].words, 100)) = 1

\* C5: the call never throws, whatever the word list.
C5_NeverThrows == Done => result.status # "threw"

\* C6: an empty or missing word list gives an empty grid, no header row and the
\* markup "<table></table>", without an exception.
C6_EmptyInput ==
    (Done /\ (~present \/ Len(words) = 0)) =>
        /\ result.status = "ok"
        /\ grid = <<>>
        /\ result.potentialHeaderIndices = <<>>
        /\ result.htmlTable = <<"<table>", "</table>">>

\* the call has returned for a missing list
C6_Witness == Done /\ ~present /\ result.status = "ok"

\* C7 as stated: one word gives one row, one column with its text, and no header row.
C7_SingleWordNoHeader ==
    (Returned /\ Len(words) = 1) =>
        /\ grid = << <<words[1].text>> >>
        /\ result.potentialHeaderIndices = <<>>

\* C7 as amended: one word gives one row, one column with its text; the row is
\* flagged as header exactly when the lower-cased text contains a header term.
C7_SingleWord ==
    (Returned /\ Len(words) = 1) =>
        /\ grid = << <<words[1].text>> >>
        /\ result.potentialHeaderIndices = (IF hasTerm(words[1].text) THEN <<0>> ELSE <<>>)

\* a single word whose row is flagged
C7_Witness == Returned /\ Len(words) = 1 /\ result.potentialHeaderIndices = <<0>>

\* C8: the main pass flags a row exactly when it has a lexical match or meets all
\* structural conditions; a lexical match alone suffices, whatever the row's word
\* count, width, position or spacing.
C8_OrCombined ==
    Returned =>
        \A i \in 1..Len(result.rows) :
            LET row == result.rows[i]
                structural == structuralHeader(row, docOf(words))
                lexical == lexicalMatch(row)
            IN  /\ lexical => InMain(i - 1)
                /\ structural => InMain(i - 1)
                /\ (~lexical /\ ~structural) => ~InMain(i - 1)

\* a one-word row below the top third is flagged for its text alone
C8_Witness ==
    /\ Returned
    /\ \E i \in 1..Len(result.rows) :
          /\ Len(result.rows[i].words) = 1
          /\ lexicalMatch(result.rows[i])
          /\ ~isInTopThird(result.rows[i].y, docOf(words))
          /\ InMain(i - 1)

\* C9 as stated: a row without lexical match is flagged by the main pass exactly
\* when it has >= 3 words, spans >= 50% of the document width, lies in the top
\* third and has a coefficient of variation of its gaps below 0.7.
C9_AtLeastHalf ==
    Returned =>
        \A i \in 1..Len(result.rows) :
            LET row == result.rows[i]
                doc == docOf(words)
            IN  ~lexicalMatch(row) =>
                    (InMain(i - 1) <=>
                        /\ Len(row.words) >= 3
                        /\ 2 * rowWidthOf(row.words) >= doc.maxX - doc.minX
                        /\ isInTopThird(row.y, doc)
                        /\ hasEvenSpacing(row.words))

\* C9 as amended: the same with a span strictly above 50% of the document width.
C9_MoreThanHalf ==
    Returned =>
        \A i \in 1..Len(result.rows) :
            LET row == result.rows[i]
                doc == docOf(words)
            IN  ~lexicalMatch(row) =>
                    (InMain(i - 1) <=>
                        /\ Len(row.words) >= 3
                        /\ 2 * rowWidthOf(row.words) > doc.maxX - doc.minX
                        /\ isInTopThird(row.y, doc)
                        /\ hasEvenSpacing(row.words))

\* a row spanning exactly half the width that meets the other conditions, not flagged
C9_Witness ==
    /\ Returned
    /\ \E i \in 1..Len(result.rows) :
          LET row == result.rows[i]
              doc == docOf(words)
          IN  /\ ~lexicalMatch(row)
              /\ Len(row.words) >= 3
              /\ 2 * rowWidthOf(row.words) = doc.maxX - doc.minX
              /\ isInTopThird(row.y, doc)
              /\ hasEvenSpacing(row.words)
              /\ ~InMain(i - 1)

\* the three boxes of the spec's scenario 1, in any order, with any texts
isScenario1(ws) ==
    /\ Len(ws) = 3
    /\ {ws[i].bbox : i \in 1..3} =
          { [x0 |-> 0, y0 |-> 0, x1 |-> 40, y1 |-> 10],
            [x0 |-> 200, y0 |-> 0, x1 |-> 260, y1 |-> 10],
            [x0 |-> 400, y0 |-> 0, x1 |-> 440, y1 |-> 10] }

\* C10 as stated: scenario 1 gives one row of three cells that meets the structural
\* signal and is therefore flagged.
C10_StructuralHeader ==
    (Returned /\ isScenario1(words)) =>
        /\ Len(grid) = 1
        /\ Len(grid[1]) = 3
        /\ structuralHeader(result.rows[1], docOf(words))
        /\ Flagged(0)

\* C10 as amended: scenario 1 gives one row of three cells; the row has three
\* words, spans the whole width and is evenly spaced, but its y is not in the top
\* third, so the structural signal fails and the row is flagged exactly when its
\* text has a lexical match.
C10_LexicalOnly ==
    (Returned /\ isScenario1(words)) =>
        LET row == result.rows[1]
            doc == docOf(words)
        IN  /\ Len(grid) = 1
            /\ Len(grid[1]) = 3
            /\ Len(row.words) >= 3
            /\ rowWidthOf(row.words) = doc.maxX - doc.minX
            /\ hasEvenSpacing(row.words)
            /\ ~isInTopThird(row.y, doc)
            /\ ~structuralHeader(row, doc)
            /\ (Flagged(0) <=> lexicalMatch(row))

\* scenario 1 with texts that contain no header term: no row is flagged
C10_Witness ==
    /\ Returned
    /\ isScenario1(words)
    /\ ~lexicalMatch(result.rows[1])
    /\ result.potentialHeaderIndices = <<>>

-----------------------------------------------------------------------------
(* Properties of padding, markup and row grouping *)

\* C11: each grid row starts with the cells segmented for it, unchanged; every
\* cell after them is the placeholder; no row is shorter than its segmented cells.
C11_AppendOnly ==
    Returned =>
        \A i \in 1..Len(grid) :
            LET cells == result.structuredRows[i] IN
            /\ Len(grid[i]) >= Len(cells)
            /\ SubSeq(grid[i], 1, Len(cells)) = cells
            /\ \A j \in (Len(cells) + 1)..Len(grid[i]) : grid[i][j] = Dash

\* a row of one segmented cell was padded with two placeholders
C11_Witness ==
    /\ Returned
    /\ \E i \in 1..Len(grid) :
          Len(result.structuredRows[i]) = 1 /\ Len(grid[i]) = 3

RowOpenTags == {"<tr>", "<tr class='header-row'>"}
openPositions == {p \in 1..Len(result.htmlTable) : result.htmlTable[p] \in RowOpenTags}
closePositions == {p \in 1..Len(result.htmlTable) : result.htmlTable[p] = "</tr>"}
\* the k-th smallest element of a set of positions
Nth(S, k) == CHOOSE p \in S : Cardinality({q \in S : q < p}) = k - 1

\* C12: the markup holds one table row per grid row, in grid order; row k is
\* opened as a header row and made of <th> cells exactly when index k is in the
\* header set, and is a plain row of <td> cells otherwise.
C12_MarkupRows ==
    Returned =>
        LET html == result.htmlTable IN
        /\ html[1] = "<table>" /\ html[Len(html)] = "</table>"
        /\ Cardinality(openPositions) = Len(grid)
        /\ Cardinality(closePositions) = Len(grid)
        /\ \A k \in 1..Len(grid) :
              LET o == Nth(openPositions, k)
                  c == Nth(closePositions, k)
                  inside == SubSeq(html, o + 1, c - 1)
              IN  /\ o < c
                  /\ k < Len(grid) => c < Nth(openPositions, k + 1)
                  /\ (html[o] = "<tr class='header-row'>") <=> Flagged(k - 1)
                  /\ inside = (IF Flagged(k - 1)
                               THEN cellsHtml(grid[k], "<th>", "</th>")
                               ELSE cellsHtml(grid[k], "<td>", "</td>"))

\* a markup with a header row that is not the first row, and a plain row
C12_Witness ==
    /\ Returned
    /\ Len(grid) >= 2
    /\ Flagged(1)
    /\ ~Flagged(0)

Centres(ws) == {midY(ws[i]).n : i \in 1..Len(ws)}
\* twice the largest difference between two vertical centres of the list
spread2(ws) ==
    LET c == Centres(ws) IN
    (CHOOSE a \in c : \A b \in c : b <= a) - (CHOOSE a \in c : \A b \in c : a <= b)

\* the number of consecutive pairs of a row sorted by x0 whose gap exceeds g
wideGaps(ws, g) ==
    Cardinality({k \in 1..(Len(ws) - 1) : ws[k + 1].bbox.x0 - ws[k].bbox.x1 > g})

\* C14: when the largest and smallest vertical centre differ by less than
\* rowTolerance, there is one row, it holds all the words, and its cells are
\* those of the gap rule applied to the words sorted by x0.
C14_SingleRow ==
    (Returned /\ Len(words) >= 1 /\ spread2(words) < 2 * rowTolerance) =>
        /\ Len(result.rows) = 1
        /\ Len(result.rows[1].words) = Len(words)
        /\ \A i \in 1..Len(words) :
              \E j \in 1..Len(words) : result.rows[1].words[j] = words[i]
        /\ Len(grid) = 1
        /\ Len(grid[1]) = 1 + wideGaps(SortByX0(words), gapThreshold)

\* three words whose centres differ (by up to 29) form one row
C14_Witness ==
    /\ Returned
    /\ Len(words) = 3
    /\ Cardinality(Centres(words)) = 3
    /\ spread2(words) = 2 * rowTolerance - 2
    /\ Len(result.rows) = 1

\* no two words of the list have vertical centres less than rowTolerance apart
allFarApart(ws) ==
    \A i, j \in 1..Len(ws) :
        i # j => Abs(midY(ws[i]).n - midY(ws[j]).n) >= 2 * rowTolerance

\* C15: when no two of the N words are within tolerance of each other, the grid
\* has N rows of one column each, and every word's text is the cell of one row.
C15_OneRowPerWord ==
    (Returned /\ allFarApart(words)) =>
        /\ Len(grid) = Len(words)
        /\ \A k \in 1..Len(grid) : Len(grid[k]) = 1
        /\ \A k \in 1..Len(grid) : grid[k] = <<sortedWordsOf(words)[k].text>>

\* three words whose centres are exactly rowTolerance apart give three rows
C15_Witness ==
    /\ Returned
    /\ Len(words) = 3
    /\ allFarApart(words)
    /\ \E i, j \in 1..3 : midY(words[i]).n - midY(words[j]).n = 2 * rowTolerance
    /\ Len(grid) = 3

\* the rows after the first k words (in sorted order) have been grouped
rowsAfter(k) == groupRows(sortedWordsOf(words), k)

\* from prev to next, the word w was appended to row f and no other row changed
appendedTo(prev, next, w, f) ==
    /\ Len(next) = Len(prev)
    /\ f \in 1..Len(prev)
    /\ next[f].words = Append(prev[f].words, w)
    /\ \A g \in 1..Len(prev) : g # f => next[g] = prev[g]

\* from prev to next, the word w started a new row after the existing ones
startedRow(prev, next, w) ==
    /\ Len(next) = Len(prev) + 1
    /\ SubSeq(next, 1, Len(prev)) = prev
    /\ next[Len(next)].words = <<w>>

\* C16: a word is appended only to a row whose y, as it stood before the append,
\* is less than rowTolerance from the word's vertical centre; a word starts a new
\* row exactly when no such row exists.
C16_WithinTolerance ==
    Returned =>
        LET sorted == sortedWordsOf(words) IN
        \A k \in 1..Len(sorted) :
            LET prev == groupRows(sorted, k - 1)
                next == groupWord(prev, sorted[k])
                m == midY(sorted[k])
                near == {f \in 1..Len(prev) : AbsDiffLess(prev[f].y, m, rowTolerance)}
            IN  /\ \A f \in 1..Len(prev) : appendedTo(prev, next, sorted[k], f) => f \in near
                /\ near = {} => startedRow(prev, next, sorted[k])
                /\ near # {} => \E f \in near : appendedTo(prev, next, sorted[k], f)
                /\ k = Len(sorted) => Len(next) = Len(result.rows)

\* a word 29 pixels from a row's y was appended to it
C16_Witness ==
    /\ Returned
    /\ \E k \in 1..Len(words) :
          LET prev == rowsAfter(k - 1)
              w == sortedWordsOf(words)[k]
          IN  \E f \in 1..Len(prev) :
                /\ appendedTo(prev, rowsAfter(k), w, f)
                /\ ~AbsDiffLess(prev[f].y, midY(w), rowTolerance - 1)

\* C17: the y of every row is the arithmetic mean of the vertical centres of its words.
C17_RowYIsMean ==
    Returned =>
        \A i \in 1..Len(result.rows) :
            LET ws == result.rows[i].words
                sum2 == SumSeq([j \in 1..Len(ws) |-> ws[j].bbox.y0 + ws[j].bbox.y1])
            IN  result.rows[i].y.n * 2 * Len(ws) = sum2 * result.rows[i].y.d

\* first words of the cells of a row under the gap rule
cellStarts(ws) ==
    {1} \cup {k + 1 : k \in {q \in 1..(Len(ws) - 1) :
                                ws[q + 1].bbox.x0 - ws[q].bbox.x1 > gapThreshold}}

\* the cells of a row sorted by x0: the words from one start up to the next,
\* their texts joined by one space
cellsByGapRule(ws) ==
    LET starts == cellStarts(ws)
        n == Cardinality(starts)
        first(c) == Nth(starts, c)
        last(c) == IF c = n THEN Len(ws) ELSE Nth(starts, c + 1) - 1
    IN  [c \in 1..n |-> JoinSpace([j \in 1..(last(c) - first(c) + 1) |-> ws[first(c) + j - 1].text])]

\* C18: in every row, consecutive words are in different cells exactly when their
\* gap exceeds gapThreshold and are joined by one space otherwise, so the row has
\* 1 + (number of gaps above the threshold) cells.
C18_GapRule ==
    Returned =>
        \A i \in 1..Len(result.rows) :
            LET ws == result.rows[i].words IN
            /\ result.structuredRows[i] = cellsByGapRule(ws)
            /\ Len(result.structuredRows[i]) = 1 + wideGaps(ws, gapThreshold)

\* a row with a gap equal to the threshold (merged) and a gap one above it (split)
C18_Witness ==
    /\ Returned
    /\ \E i \in 1..Len(result.rows) :
          LET ws == result.rows[i].words IN
          /\ \E k \in 1..(Len(ws) - 1) : ws[k + 1].bbox.x0 - ws[k].bbox.x1 = gapThreshold
          /\ \E k \in 1..(Len(ws) - 1) : ws[k + 1].bbox.x0 - ws[k].bbox.x1 = gapThreshold + 1
          /\ Len(result.structuredRows[i]) = 2

\* 0-based indices of the rows the fallback may flag
fallbackCandidates ==
    LET doc == docOf(words) IN
    {i \in 0..(Len(result.rows) - 1) :
        /\ i < 5
        /\ Len(result.rows[i + 1].words) >= 3
        /\ 5 * rowWidthOf(result.rows[i + 1].words) > 2 * (doc.maxX - doc.minX)}

\* C19: the header set is the main pass's unless that is empty and there are at
\* least 2 rows; then it is the lowest candidate among the first 5 rows (>= 3
\* words, span ratio > 0.4) alone, or empty when there is none.
C19_Fallback ==
    Returned =>
        LET hdr == result.potentialHeaderIndices
            main == result.mainHeaders
        IN  /\ (main # <<>> \/ Len(result.rows) < 2) => hdr = main
            /\ (main = <<>> /\ Len(result.rows) >= 2 /\ fallbackCandidates = {}) => hdr = <<>>
            /\ (main = <<>> /\ Len(result.rows) >= 2 /\ fallbackCandidates # {}) =>
                  hdr = << CHOOSE i \in fallbackCandidates : \A j \in fallbackCandidates : i <= j >>
            /\ main = <<>> => Len(hdr) <= 1

\* six rows of which only the sixth qualifies: nothing is flagged
C19_Witness ==
    /\ Returned
    /\ Len(result.rows) = 6
    /\ result.mainHeaders = <<>>
    /\ Len(result.rows[6].words) >= 3
    /\ 5 * rowWidthOf(result.rows[6].words) > 2 * (docOf(words).maxX - docOf(words).minX)
    /\ result.potentialHeaderIndices = <<>>

\* C20: the grid's rows are in non-decreasing order of y, grid row i is made of
\* the words of row i, and a header index names a row of that order.
C20_RowOrder ==
    Returned =>
        /\ \A i, j \in 1..Len(result.rows) :
              i < j => ~RLess(result.rows[j].y, result.rows[i].y)
        /\ Len(grid) = Len(result.rows)
        /\ \A i \in 1..Len(grid) :
              SubSeq(grid[i], 1, Len(result.structuredRows[i]))
                  = cellsByGapRule(SortByX0(result.rows[i].words))
        /\ \A i \in 0..(Len(grid) - 1) :
              InMain(i) <=> (lexicalMatch(result.rows[i + 1])
                             \/ structuralHeader(result.rows[i + 1], docOf(words)))
        /\ \A h \in 1..Len(result.potentialHeaderIndices) :
              result.potentialHeaderIndices[h] \in 0..(Len(grid) - 1)

\* two rows, the upper one with a drifted y, the lower one flagged
C20_Witness ==
    /\ Returned
    /\ Len(result.rows) = 2
    /\ result.rows[1].y.d # 1
    /\ RLess(result.rows[1].y, result.rows[2].y)
    /\ result.potentialHeaderIndices = <<1>>

-----------------------------------------------------------------------------
(* Properties of the input words: geometry, partition, frame *)

\* a box of zero width or height, or with a negative coordinate
isDegenerate(w) ==
    \/ w.bbox.x1 - w.bbox.x0 = 0
    \/ w.bbox.y1 - w.bbox.y0 = 0
    \/ w.bbox.x0 < 0 \/ w.bbox.y0 < 0 \/ w.bbox.x1 < 0 \/ w.bbox.y1 < 0

\* C21: no word with degenerate geometry is placed in a row unchanged.
C21_DegenerateFiltered ==
    Returned =>
        \A i \in 1..Len(result.rows) : \A j \in 1..Len(result.rows[i].words) :
            ~isDegenerate(result.rows[i].words[j])

\* the words of all rows, row after row
RECURSIVE rowWordsOf(_)
rowWordsOf(rows) ==
    IF rows = <<>> THEN <<>> ELSE Head(rows).words \o rowWordsOf(Tail(rows))

\* how many times the word w occurs in the list
occurrences(ws, w) == Cardinality({k \in 1..Len(ws) : ws[k] = w})

-----------------------------------------------------------------------------
(* Properties of the hook *)

Ended(r) == run[r].pc = "done"

\* C22: a run whose page loop observed the aborted signal ends with the error
\* 'Operation cancelled by user'.
C22_CancelledMessage ==
    \A r \in Runs :
        (Ended(r) /\ hist[r].observed) => hist[r].endState.error = "Operation cancelled by user"

\* C23: when the extraction of a run settles (it returned, threw or was cancelled)
\* and no other invocation was in flight beside it, workerRef.current is null and
\* the worker the run created has been terminated.
C23_WorkerReleased ==
    \A r \in Runs :
        (Ended(r) /\ ~hist[r].overlapped) =>
            /\ hist[r].settled.workerRef = 0
            /\ ~hist[r].settled.live
            /\ run[r].made => r \in terminated

\* a cancelled PDF run that had created its worker, and a run that returned
C23_Witness ==
    /\ \E r \in Runs : /\ Ended(r) /\ ~hist[r].overlapped /\ run[r].made
                       /\ run[r].kind = "pdf" /\ hist[r].observed
    /\ \E r \in Runs : /\ Ended(r) /\ ~hist[r].overlapped /\ run[r].made
                       /\ ~hist[r].endState.failed

\* C24: a run does not write its result after cancelProcessing was invoked
\* while it was in flight.
C24_NoWriteAfterCancel ==
    \A r \in Runs : ~hist[r].wroteAfterCancel

\* C25: the cleanup of a cancelled run terminates no worker of another run in
\* flight and its finally block does not clear the flag another run has set.
C25_NoForeignCleanup ==
    \A r \in Runs : hist[r].cancelled => ~hist[r].killedOther /\ ~hist[r].clearedOther

\* C27: a run that has ended left isOcrProcessing false and processingStatus
\* empty, and if it failed, extractedText empty and error non-null.
C27_EndState ==
    \A r \in Runs :
        Ended(r) =>
            LET e == hist[r].endState IN
            /\ ~e.isOcrProcessing
            /\ e.processingStatus = ""
            /\ e.failed => (e.extractedText = 0 /\ e.error # "null")

\* C29: when handleAnalysis has ended, isAnalysisProcessing is false, the error
\* is what it was before, and analysisText is the string analyzeBloodwork
\* resolved to, whatever the completion call did.
C29_NeverRejects ==
    an.pc = "done" =>
        /\ ~hs.isAnalysisProcessing
        /\ hs.processingStatus = ""
        /\ hs.error = an.errorBefore
        /\ hs.analysisText =
              (IF ~an.hasKey THEN mockAnalysis
               ELSE IF an.api = "content" THEN "analysis"
               ELSE IF an.api = "empty" THEN noAnalysis
               ELSE analysisError)

\* the completion call rejected: the failure is in analysisText, the error is null
C29_Witness ==
    /\ an.pc = "done"
    /\ an.hasKey
    /\ an.api = "rejected"
    /\ hs.analysisText = analysisError
    /\ hs.error = "null"

\* C30: the progress values a run writes never decrease and stay within 0..100.
C30_ProgressMonotone ==
    \A r \in Runs : ~hist[r].decreased /\ ~hist[r].outOfRange

====
